---- MODULE Spec2Model ----
(***************************************************************************)
(* Restaurant inventory and ordering (src/database.py, src/app.py).        *)
(*                                                                         *)
(* The database is the five tables of init_db, each a sequence of rows in  *)
(* rowid order.  Quantities are integers (grams, pieces); money is fixed   *)
(* point: a price and the running subtotal are in thousandths, every       *)
(* stored amount (subtotal, vat_amount, total, line_price) is in cents.    *)
(*                                                                         *)
(*   Spec      one client, one call at a time, on a catalog the public     *)
(*             operations have built: a whole create_order call is one     *)
(*             step; a storage error can be forced on any statement of     *)
(*             its transaction.                                            *)
(*   ConcSpec  two clients inside create_order at once, one step per SQL   *)
(*             statement, over sqlite's single write lock.                 *)
(*   AppSpec   one client, from the empty database: every writing          *)
(*             operation (ingredients, dishes, recipes, orders) and the    *)
(*             low-stock alerts, one whole call per step.                  *)
(*   LedgerSpec  one client on a stocked catalog: orders placed over       *)
(*             several days between edits and deletions, the three         *)
(*             fetches with their filters and the CSV export.              *)
(*   EditSpec  the clients of ConcSpec inside create_order while a third   *)
(*             one edits ingredients, dishes and recipes between any two   *)
(*             of their statements.                                        *)
(***************************************************************************)
EXTENDS Integers, Sequences, FiniteSets, TLC

VARIABLES
    stock_inventory,   \* rows [id, ingredient_name, quantity_in_stock, unit]
    menu_inventory,    \* rows [id, dish_name, dish_price]
    dish_ingredients,  \* rows [menu_id, ingredient_id, quantity_needed]
    orders,            \* rows [id, order_date, subtotal, vat_rate, vat_amount, total]
    order_items,       \* rows [order_id, dish_id, quantity, line_price]
    sqlite_sequence,   \* per table, the largest id AUTOINCREMENT has given out
    today,             \* the day CURRENT_TIMESTAMP falls on
    call,              \* the public operation last called, with its arguments
    result,            \* what that call returned
    proc,              \* ConcSpec, EditSpec: each client's position and locals in create_order
    lock,              \* ConcSpec, EditSpec: the client holding sqlite's write lock, or 0
    stock0             \* ConcSpec, EditSpec: the stock when the calls started

tables == <<stock_inventory, menu_inventory, dish_ingredients, orders, order_items,
            sqlite_sequence>>
vars == <<stock_inventory, menu_inventory, dish_ingredients, orders, order_items,
          sqlite_sequence, today, call, result, proc, lock, stock0>>

\* ------------------------------------------------------------------ bounds

MaxLines == 2     \* basket lines per create_order call (Spec)
MaxQty == 2       \* largest line quantity a basket asks for
MaxOrders == 2    \* orders committed before the model stops placing more

\* ------------------------------------------------------- program constants

allowed_units == {"g", "pc", "ml"}
vatRate == 21     \* percent: 0.21

\* ---------------------------------------------------------------- database

DB == [stock_inventory |-> stock_inventory, menu_inventory |-> menu_inventory,
       dish_ingredients |-> dish_ingredients, orders |-> orders,
       order_items |-> order_items, sqlite_sequence |-> sqlite_sequence]

EmptyDB == [stock_inventory |-> <<>>, menu_inventory |-> <<>>,
            dish_ingredients |-> <<>>, orders |-> <<>>, order_items |-> <<>>,
            sqlite_sequence |-> [stock_inventory |-> 0, menu_inventory |-> 0,
                                 orders |-> 0]]

Range(s) == {s[i] : i \in DOMAIN s}

RECURSIVE SumSeq(_)
SumSeq(s) == IF s = <<>> THEN 0 ELSE Head(s) + SumSeq(Tail(s))

\* AUTOINCREMENT: one more than the largest id the table has ever held, which
\* sqlite keeps in sqlite_sequence; the id of a deleted row is not given again.
NextId(db, table) == db.sqlite_sequence[table] + 1

\* INSERT INTO table: the row goes last and its id becomes the table's sequence.
Insert(db, table, row) ==
    [db EXCEPT ![table] = Append(@, row), !.sqlite_sequence[table] = row.id]

\* The outcome every public operation returns: (success flag, message).  The
\* message is the text of the source with its parameters beside it.
\* raised: the call ended by an exception instead of returning.
\* conn: what the call left of the connection it opened, "closed" (conn.close()
\* ran once its transaction had ended, or get_connection was never reached),
\* "open" (the call ended without conn.close()), or "closed_in_transaction"
\* (conn.close() ran inside "with conn:", whose exit then commits on the closed
\* connection).
Outcome(ok, msg, id, name, needed, have) ==
    [ok |-> ok, raised |-> FALSE, msg |-> msg, id |-> id, name |-> name,
     needed |-> needed, have |-> have, conn |-> "closed"]

Success(msg, id) == Outcome(TRUE, msg, id, "", 0, 0)
Failure(msg, id, name) == Outcome(FALSE, msg, id, name, 0, 0)

\* An exception leaving a function whose conn.close() is its last statement
\* but one, outside any finally: the close is skipped.
Raised(msg) == [Failure(msg, 0, "") EXCEPT !.raised = TRUE, !.conn = "open"]

\* An exception leaving through "finally: conn.close()".
RaisedClosed(msg) == [Failure(msg, 0, "") EXCEPT !.raised = TRUE]

\* update_dish: conn.close() before the return inside "with conn:"; the commit
\* of the with block raises ProgrammingError on the closed connection.
RaisedInClosed(msg) ==
    [Failure(msg, 0, "") EXCEPT !.raised = TRUE, !.conn = "closed_in_transaction"]

NoCall == [op |-> "none", items |-> <<>>, fault |-> 0]
NoResult == Success("", 0)

\* round(x, 2) of Python, on a fixed-point amount: x counts units of 1/(100*d),
\* the result counts cents.  Ties go to the even cent.
RoundHalfEven(x, d) ==
    LET q == x \div d
        r == x % d
    IN IF 2 * r > d \/ (2 * r = d /\ q % 2 = 1) THEN q + 1 ELSE q

\* str.strip() on the unit texts the model uses: one of them is padded.
strip(unit) == IF unit = " g " THEN "g" ELSE unit

\* The stripped unit when it is an allowed one, "" (None) otherwise.
validate_unit(unit) == IF strip(unit) \in allowed_units THEN strip(unit) ELSE ""

\* ------------------------------------------------------------------ catalog

IngredientByName(db, name) ==
    {r \in Range(db.stock_inventory) : r.ingredient_name = name}

DishById(db, dish_id) == {r \in Range(db.menu_inventory) : r.id = dish_id}

DishByName(db, name) == {r \in Range(db.menu_inventory) : r.dish_name = name}

\* Mutant of ensure_ingredient_exists: a new ingredient starts with one unit in
\* stock.
ensure_ingredient_exists_stocked(db, ingredient_name, unit) ==
    LET found == IngredientByName(db, ingredient_name)
    IN IF found # {}
       THEN LET row == CHOOSE r \in found : TRUE
            IN IF row.unit # unit
               THEN [db |-> db, id |-> 0, err |-> "Unit mismatch"]
               ELSE [db |-> db, id |-> row.id, err |-> ""]
       ELSE LET id == NextId(db, "stock_inventory")
            IN [db |-> Insert(db, "stock_inventory",
                              [id |-> id, ingredient_name |-> ingredient_name,
                               quantity_in_stock |-> 1, unit |-> unit]),
                id |-> id, err |-> ""]

\* Look the ingredient up by name; insert it with stock 0 when it is not there.
\* Returns the database, the ingredient's id and an error text ("" for none).
ensure_ingredient_exists(db, ingredient_name, unit) ==
    LET found == IngredientByName(db, ingredient_name)
    IN IF found # {}
       THEN LET row == CHOOSE r \in found : TRUE
            IN IF row.unit # unit
               THEN [db |-> db, id |-> 0, err |-> "Unit mismatch"]
               ELSE [db |-> db, id |-> row.id, err |-> ""]
       ELSE LET id == NextId(db, "stock_inventory")
            IN [db |-> Insert(db, "stock_inventory",
                              [id |-> id, ingredient_name |-> ingredient_name,
                               quantity_in_stock |-> 0, unit |-> unit]),
                id |-> id, err |-> ""]

add_ingredient(db, name, quantity, unit) ==
    IF quantity <= 0
    THEN [db |-> db, out |-> Failure("Quantity must be greater than 0", 0, name)]
    ELSE IF validate_unit(unit) = ""
    THEN [db |-> db, out |-> Failure("Unit must be one of", 0, name)]
    ELSE IF IngredientByName(db, name) # {}
    THEN [db |-> db, out |-> Failure("Ingredient already exists", 0, name)]
    ELSE [db |-> Insert(db, "stock_inventory",
                        [id |-> NextId(db, "stock_inventory"),
                         ingredient_name |-> name,
                         quantity_in_stock |-> quantity, unit |-> validate_unit(unit)]),
          out |-> Success("Ingredient added", 0)]

\* The recipe loop of create_dish and update_dish, from entry i on, inside the
\* open transaction tx: the first bad entry ends it with its error text.
RECURSIVE InsertRecipe(_, _, _, _)
InsertRecipe(tx, dish_id, ingredients, i) ==
    IF i > Len(ingredients) THEN [db |-> tx, err |-> ""]
    ELSE LET ing == ingredients[i]
         IN IF validate_unit(ing.unit) = "" THEN [db |-> tx, err |-> "Invalid unit for"]
            ELSE IF ing.qty_needed <= 0
            THEN [db |-> tx, err |-> "Quantity needed must be greater than 0 for"]
            ELSE LET e == ensure_ingredient_exists(tx, ing.name, ing.unit)
                 IN IF e.err # "" THEN [db |-> tx, err |-> e.err]
                    ELSE InsertRecipe(
                           [e.db EXCEPT !.dish_ingredients =
                              Append(@, [menu_id |-> dish_id, ingredient_id |-> e.id,
                                         quantity_needed |-> ing.qty_needed])],
                           dish_id, ingredients, i + 1)

\* Mutant of create_dish: a failing recipe undoes the dish row and the links,
\* and keeps the ingredients its earlier entries created.
create_dish_keeps_new_ingredients(db, dish_name, dish_price, ingredients) ==
    IF dish_price <= 0
    THEN [db |-> db, out |-> Failure("Price must be greater than 0", 0, dish_name)]
    ELSE IF DishByName(db, dish_name) # {}
    THEN [db |-> db, out |-> Failure("Dish already exists", 0, dish_name)]
    ELSE LET dish_id == NextId(db, "menu_inventory")
             tx == Insert(db, "menu_inventory",
                          [id |-> dish_id, dish_name |-> dish_name,
                           dish_price |-> dish_price])
             r == InsertRecipe(tx, dish_id, ingredients, 1)
         IN IF r.err # ""
            THEN [db |-> [db EXCEPT !.stock_inventory = r.db.stock_inventory],
                  out |-> Failure(r.err, 0, dish_name)]
            ELSE [db |-> r.db, out |-> Success("Dish created", dish_id)]

\* An exception inside "with conn:" rolls the transaction back (the except
\* clauses then turn it into a failure outcome).
create_dish(db, dish_name, dish_price, ingredients) ==
    IF dish_price <= 0
    THEN [db |-> db, out |-> Failure("Price must be greater than 0", 0, dish_name)]
    ELSE IF DishByName(db, dish_name) # {}
    THEN [db |-> db, out |-> Failure("Dish already exists", 0, dish_name)]
    ELSE LET dish_id == NextId(db, "menu_inventory")
             tx == Insert(db, "menu_inventory",
                          [id |-> dish_id, dish_name |-> dish_name,
                           dish_price |-> dish_price])
             r == InsertRecipe(tx, dish_id, ingredients, 1)
         IN IF r.err # ""
            THEN [db |-> db, out |-> Failure(r.err, 0, dish_name)]
            ELSE [db |-> r.db, out |-> Success("Dish created", dish_id)]

\* Mutant of update_dish: the DELETE of the old recipe links is missing.
update_dish_keeps_old_links(db, dish_id, new_name, new_price, new_ingredients) ==
    IF new_price <= 0
    THEN [db |-> db, out |-> Failure("Price must be greater than 0", dish_id, new_name)]
    ELSE IF DishById(db, dish_id) = {}
    THEN [db |-> db, out |-> RaisedInClosed("Cannot operate on a closed database.")]
    ELSE IF \E r \in DishByName(db, new_name) : r.id # dish_id
    THEN [db |-> db, out |-> Raised("UNIQUE constraint failed: menu_inventory.dish_name")]
    ELSE LET tx == [db EXCEPT
                      !.menu_inventory =
                          [k \in DOMAIN @ |->
                              IF @[k].id = dish_id
                              THEN [id |-> dish_id, dish_name |-> new_name,
                                    dish_price |-> new_price]
                              ELSE @[k]]]
             r == InsertRecipe(tx, dish_id, new_ingredients, 1)
         IN IF r.err # ""
            THEN [db |-> db, out |-> RaisedInClosed("Cannot operate on a closed database.")]
            ELSE [db |-> r.db, out |-> Success("Dish updated", dish_id)]

\* update_dish closes the connection inside "with conn:" before each early
\* return: the close discards the open transaction, and the commit the with
\* block then attempts raises ProgrammingError out of the call.  A duplicate
\* name raises IntegrityError out of the call, rolled back by the with block.
update_dish(db, dish_id, new_name, new_price, new_ingredients) ==
    IF new_price <= 0
    THEN [db |-> db, out |-> Failure("Price must be greater than 0", dish_id, new_name)]
    ELSE IF DishById(db, dish_id) = {}
    THEN [db |-> db, out |-> RaisedInClosed("Cannot operate on a closed database.")]
    ELSE IF \E r \in DishByName(db, new_name) : r.id # dish_id
    THEN [db |-> db, out |-> Raised("UNIQUE constraint failed: menu_inventory.dish_name")]
    ELSE LET tx == [db EXCEPT
                      !.menu_inventory =
                          [k \in DOMAIN @ |->
                              IF @[k].id = dish_id
                              THEN [id |-> dish_id, dish_name |-> new_name,
                                    dish_price |-> new_price]
                              ELSE @[k]],
                      !.dish_ingredients =
                          SelectSeq(@, LAMBDA l : l.menu_id # dish_id)]
             r == InsertRecipe(tx, dish_id, new_ingredients, 1)
         IN IF r.err # ""
            THEN [db |-> db, out |-> RaisedInClosed("Cannot operate on a closed database.")]
            ELSE [db |-> r.db, out |-> Success("Dish updated", dish_id)]

IngredientById(db, ingredient_id) ==
    {r \in Range(db.stock_inventory) : r.id = ingredient_id}

\* UPDATE stock_inventory SET ... WHERE id = ?.  No row: rowcount is 0.  A name
\* another row holds: IntegrityError leaves the call, rolled back by the with
\* block.
update_ingredient_by_id(db, ingredient_id, name, quantity, unit) ==
    IF quantity <= 0
    THEN [db |-> db, out |-> Failure("Quantity must be greater than 0", ingredient_id, name)]
    ELSE IF validate_unit(unit) = ""
    THEN [db |-> db, out |-> Failure("Unit must be one of", ingredient_id, name)]
    ELSE IF IngredientById(db, ingredient_id) = {}
    THEN [db |-> db, out |-> Failure("Ingredient not found", ingredient_id, name)]
    ELSE IF \E r \in IngredientByName(db, name) : r.id # ingredient_id
    THEN [db |-> db,
          out |-> Raised("UNIQUE constraint failed: stock_inventory.ingredient_name")]
    ELSE [db |-> [db EXCEPT !.stock_inventory =
                     [k \in DOMAIN @ |->
                        IF @[k].id = ingredient_id
                        THEN [id |-> ingredient_id, ingredient_name |-> name,
                              quantity_in_stock |-> quantity,
                              unit |-> validate_unit(unit)]
                        ELSE @[k]]],
          out |-> Success("Ingredient updated", ingredient_id)]

\* Mutant of delete_ingredient_by_id: the row goes although recipe links name it.
delete_ingredient_by_id_unchecked(db, ingredient_id) ==
    IF IngredientById(db, ingredient_id) = {}
    THEN [db |-> db, out |-> Failure("Ingredient not found", ingredient_id, "")]
    ELSE [db |-> [db EXCEPT !.stock_inventory =
                     SelectSeq(@, LAMBDA r : r.id # ingredient_id)],
          out |-> Success("Ingredient deleted", ingredient_id)]

\* DELETE FROM stock_inventory WHERE id = ?.  dish_ingredients.ingredient_id
\* references the row: IntegrityError leaves the call.
delete_ingredient_by_id(db, ingredient_id) ==
    IF IngredientById(db, ingredient_id) = {}
    THEN [db |-> db, out |-> Failure("Ingredient not found", ingredient_id, "")]
    ELSE IF \E l \in Range(db.dish_ingredients) : l.ingredient_id = ingredient_id
    THEN [db |-> db, out |-> Raised("FOREIGN KEY constraint failed")]
    ELSE [db |-> [db EXCEPT !.stock_inventory =
                     SelectSeq(@, LAMBDA r : r.id # ingredient_id)],
          out |-> Success("Ingredient deleted", ingredient_id)]

\* Mutant of delete_dish: the order items of the dish go with it.
delete_dish_with_its_order_items(db, dish_id) ==
    IF DishById(db, dish_id) = {}
    THEN [db |-> db, out |-> Failure("Dish not found", dish_id, "")]
    ELSE [db |-> [db EXCEPT
                     !.menu_inventory = SelectSeq(@, LAMBDA r : r.id # dish_id),
                     !.dish_ingredients = SelectSeq(@, LAMBDA l : l.menu_id # dish_id),
                     !.order_items = SelectSeq(@, LAMBDA it : it.dish_id # dish_id)],
          out |-> Success("Dish deleted", dish_id)]

\* DELETE FROM menu_inventory WHERE id = ?.  The recipe links go with the dish
\* (ON DELETE CASCADE); order_items.dish_id references the row without a
\* cascade: IntegrityError leaves the call.
delete_dish(db, dish_id) ==
    IF DishById(db, dish_id) = {}
    THEN [db |-> db, out |-> Failure("Dish not found", dish_id, "")]
    ELSE IF \E it \in Range(db.order_items) : it.dish_id = dish_id
    THEN [db |-> db, out |-> Raised("FOREIGN KEY constraint failed")]
    ELSE [db |-> [db EXCEPT
                     !.menu_inventory = SelectSeq(@, LAMBDA r : r.id # dish_id),
                     !.dish_ingredients = SelectSeq(@, LAMBDA l : l.menu_id # dish_id)],
          out |-> Success("Dish deleted", dish_id)]

\* -------------------------------------------------------------------- reads

\* An optional argument: None, or a value.
None == <<>>
Some(v) == <<v>>

\* The letters of the names and filter texts the model uses, in lower case
\* (LIKE and the lower() of fetch_orders both ignore case).
lower == [flour |-> <<"f", "l", "o", "u", "r">>, egg |-> <<"e", "g", "g">>,
          A |-> <<"a">>, B |-> <<"b">>, E |-> <<"e">>,
          a |-> <<"a">>, b |-> <<"b">>, g |-> <<"g">>, o |-> <<"o">>]

\* name LIKE '%pattern%', and pattern.lower() in name.lower().
Contains(name, pattern) ==
    LET n == lower[name]
        q == lower[pattern]
    IN \E i \in 0..(Len(n) - Len(q)) : SubSeq(n, i + 1, i + Len(q)) = q

\* "" stands for a filter text that is None or empty (both falsy).
fetch_ingredients(db, filter_name, filter_quantity, op) ==
    SelectSeq(db.stock_inventory,
              LAMBDA r : /\ filter_name # "" => Contains(r.ingredient_name, filter_name)
                         /\ filter_quantity # None =>
                               IF op = "ge" THEN r.quantity_in_stock >= filter_quantity[1]
                               ELSE r.quantity_in_stock <= filter_quantity[1])

\* Mutant of fetch_menu: the price bound is an upper bound whatever price_op says.
fetch_menu_ignores_price_op(db, filter_name, filter_price, price_op) ==
    SelectSeq(db.menu_inventory,
              LAMBDA r : /\ filter_name # "" => Contains(r.dish_name, filter_name)
                         /\ filter_price # None => r.dish_price <= filter_price[1])

fetch_menu(db, filter_name, filter_price, price_op) ==
    SelectSeq(db.menu_inventory,
              LAMBDA r : /\ filter_name # "" => Contains(r.dish_name, filter_name)
                         /\ filter_price # None =>
                               IF price_op = "le" THEN r.dish_price <= filter_price[1]
                               ELSE r.dish_price >= filter_price[1])

\* SELECT ... FROM dish_ingredients di JOIN stock_inventory si ON si.id = di.ingredient_id
JoinStock(db, links) ==
    LET found == SelectSeq(links, LAMBDA l : IngredientById(db, l.ingredient_id) # {})
    IN [k \in DOMAIN found |->
          LET si == CHOOSE r \in IngredientById(db, found[k].ingredient_id) : TRUE
          IN [ingredient_id |-> si.id, quantity_needed |-> found[k].quantity_needed,
              ingredient_name |-> si.ingredient_name,
              quantity_in_stock |-> si.quantity_in_stock, unit |-> si.unit]]

fetch_dish_ingredients(db, dish_id) ==
    JoinStock(db, SelectSeq(db.dish_ingredients, LAMBDA l : l.menu_id = dish_id))

\* Mutant of threshold: twice the quantity a recipe line needs.
threshold_of_two(quantity_needed) == 2 * quantity_needed

threshold(quantity_needed) == 3 * quantity_needed

\* Mutant of IsLow: a stock equal to the threshold is low as well.
IsLowOrAtThreshold(r) == r.quantity_in_stock <= threshold(r.quantity_needed)

IsLow(r) == r.quantity_in_stock < threshold(r.quantity_needed)

\* The loop of compute_low_stock_alerts from row i on: the first low line of an
\* (ingredient, unit) pair makes its alert, the later ones are skipped.
RECURSIVE AlertScan(_, _, _, _)
AlertScan(rows, i, seen, alerts) ==
    IF i > Len(rows) THEN alerts
    ELSE LET r == rows[i]
             key == <<r.ingredient_name, r.unit>>
         IN IF IsLow(r) /\ key \notin seen
            THEN AlertScan(rows, i + 1, seen \cup {key},
                           Append(alerts, [ingredient |-> r.ingredient_name,
                                           stock |-> r.quantity_in_stock,
                                           unit |-> r.unit,
                                           threshold |-> threshold(r.quantity_needed)]))
            ELSE AlertScan(rows, i + 1, seen, alerts)

compute_low_stock_alerts(db) == AlertScan(JoinStock(db, db.dish_ingredients), 1, {}, <<>>)

\* SELECT ... FROM orders o WHERE date(o.order_date) >= date(?) AND ... <= date(?)
\* A date of 0 stands for one that is None or empty (both falsy).
SelectedOrders(db, start_date, end_date) ==
    SelectSeq(db.orders, LAMBDA o : /\ start_date # 0 => o.order_date >= start_date
                                    /\ end_date # 0 => o.order_date <= end_date)

\* ORDER BY o.order_date DESC: the ways to list rows with no earlier date before
\* a later one (the order of equal dates is not fixed by the query).
DateDesc(rows) ==
    {p \in [DOMAIN rows -> DOMAIN rows] :
        /\ \A i, j \in DOMAIN rows : i # j => p[i] # p[j]
        /\ \A i, j \in DOMAIN rows :
              i < j => rows[p[i]].order_date >= rows[p[j]].order_date}

\* order_date_display: strftime("%Y-%m-%d") of a timestamp the model keeps to
\* the day.
order_date_display(raw) == raw

\* SELECT oi.quantity, oi.line_price, m.dish_name FROM order_items oi
\* JOIN menu_inventory m ON m.id = oi.dish_id WHERE oi.order_id = ?
ItemsOfOrder(db, order_id) ==
    LET its == SelectSeq(db.order_items,
                         LAMBDA it : it.order_id = order_id /\ DishById(db, it.dish_id) # {})
    IN [k \in DOMAIN its |->
          [quantity |-> its[k].quantity, line_price |-> its[k].line_price,
           dish_name |-> (CHOOSE m \in DishById(db, its[k].dish_id) : TRUE).dish_name]]

\* p is the order in which the sorted query returned the selected rows.
fetch_orders(db, filter_name, start_date, end_date, p) ==
    LET rows == SelectedOrders(db, start_date, end_date)
        results == [k \in DOMAIN rows |->
                      LET r == rows[p[k]]
                      IN [order |-> [id |-> r.id, order_date |-> r.order_date,
                                     subtotal |-> r.subtotal, vat_rate |-> r.vat_rate,
                                     vat_amount |-> r.vat_amount, total |-> r.total,
                                     order_date_display |-> order_date_display(r.order_date)],
                          items |-> ItemsOfOrder(db, r.id)]]
    IN SelectSeq(results,
                 LAMBDA o : filter_name # "" =>
                               \E it \in Range(o.items) : Contains(it.dish_name, filter_name))

\* Mutant of CsvRows: one row per order, for its first item.
CsvRowsFirstItemOnly(o) ==
    IF o.items = <<>> THEN <<>>
    ELSE <<[order_id |-> o.order.id, order_date |-> o.order.order_date_display,
            dish_name |-> o.items[1].dish_name, qty |-> o.items[1].quantity,
            line_price |-> o.items[1].line_price, subtotal |-> o.order.subtotal,
            vat_rate |-> o.order.vat_rate, vat_amount |-> o.order.vat_amount,
            total |-> o.order.total]>>

\* The rows the inner loop of export_orders_csv writes for one order.
CsvRows(o) ==
    [k \in DOMAIN o.items |->
        [order_id |-> o.order.id, order_date |-> o.order.order_date_display,
         dish_name |-> o.items[k].dish_name, qty |-> o.items[k].quantity,
         line_price |-> o.items[k].line_price, subtotal |-> o.order.subtotal,
         vat_rate |-> o.order.vat_rate, vat_amount |-> o.order.vat_amount,
         total |-> o.order.total]]

RECURSIVE WriteRows(_, _)
WriteRows(fetched, i) ==
    IF i > Len(fetched) THEN <<>> ELSE CsvRows(fetched[i]) \o WriteRows(fetched, i + 1)

\* The route export_orders_csv: the header line, then the rows of every order.
export_orders_csv(db, p) ==
    [header |-> <<"order_id", "order_date", "dish_name", "qty", "line_price",
                  "subtotal", "vat_rate", "vat_amount", "total">>,
     rows |-> WriteRows(fetch_orders(db, "", 0, 0, p), 1)]

\* -------------------------------------------------------------- create_order

\* The locals of one create_order call.  done: the call has returned out.
\* needs keeps the insertion order of the Python dict.
Frame0 == [done |-> FALSE, out |-> NoResult, dish_map |-> <<>>, subtotal |-> 0,
           needs |-> <<>>]

Return(f, out) == [f EXCEPT !.done = TRUE, !.out = out]

\* One pass of the first loop: validate the line and add it to the subtotal.
ValidateLine(db, f, it) ==
    IF it.qty <= 0 THEN Return(f, Failure("Quantity must be >= 1", 0, ""))
    ELSE LET rows == DishById(db, it.dish_id)
         IN IF rows = {} THEN Return(f, Failure("Dish id not found", it.dish_id, ""))
            ELSE LET row == CHOOSE r \in rows : TRUE
                 IN [f EXCEPT
                       !.dish_map = (it.dish_id :> [name |-> row.dish_name,
                                                    price |-> row.dish_price]) @@ @,
                       !.subtotal = @ + row.dish_price * it.qty]

\* SELECT ... FROM dish_ingredients di JOIN stock_inventory si ... WHERE di.menu_id = ?
RecipeRows(db, dish_id) ==
    LET links == SelectSeq(db.dish_ingredients,
                           LAMBDA l : /\ l.menu_id = dish_id
                                      /\ \E si \in Range(db.stock_inventory) :
                                            si.id = l.ingredient_id)
    IN [k \in DOMAIN links |->
          LET si == CHOOSE r \in Range(db.stock_inventory) : r.id = links[k].ingredient_id
          IN [ingredient_id |-> si.id, quantity_needed |-> links[k].quantity_needed,
              ingredient_name |-> si.ingredient_name,
              quantity_in_stock |-> si.quantity_in_stock, unit |-> si.unit]]

\* Mutant of AddNeed: "=" for "+=", the need of an ingredient seen again replaces
\* what was accumulated.
AddNeedOverwrites(needs, r, qty) ==
    LET tot_needed == r.quantity_needed * qty
    IN IF \E k \in DOMAIN needs : needs[k].iid = r.ingredient_id
       THEN [k \in DOMAIN needs |->
               IF needs[k].iid = r.ingredient_id
               THEN [needs[k] EXCEPT !.needed = tot_needed]
               ELSE needs[k]]
       ELSE Append(needs, [iid |-> r.ingredient_id, name |-> r.ingredient_name,
                           unit |-> r.unit, needed |-> tot_needed,
                           stock |-> r.quantity_in_stock])

\* needs[iid]["needed"] += tot_needed, or a new entry holding the stock just read.
AddNeed(needs, r, qty) ==
    LET tot_needed == r.quantity_needed * qty
    IN IF \E k \in DOMAIN needs : needs[k].iid = r.ingredient_id
       THEN [k \in DOMAIN needs |->
               IF needs[k].iid = r.ingredient_id
               THEN [needs[k] EXCEPT !.needed = @ + tot_needed]
               ELSE needs[k]]
       ELSE Append(needs, [iid |-> r.ingredient_id, name |-> r.ingredient_name,
                           unit |-> r.unit, needed |-> tot_needed,
                           stock |-> r.quantity_in_stock])

RECURSIVE AddNeeds(_, _, _, _)
AddNeeds(needs, ing_rows, qty, i) ==
    IF i > Len(ing_rows) THEN needs
    ELSE AddNeeds(AddNeed(needs, ing_rows[i], qty), ing_rows, qty, i + 1)

\* Mutant of NeedsLine: the "if not ing_rows" return is missing.
NeedsLineNoEmptyCheck(db, f, it) ==
    [f EXCEPT !.needs = AddNeeds(@, RecipeRows(db, it.dish_id), it.qty, 1)]

\* One pass of the second loop: read the line's recipe and accumulate it.
NeedsLine(db, f, it) ==
    LET ing_rows == RecipeRows(db, it.dish_id)
    IN IF ing_rows = <<>>
       THEN Return(f, Failure("has no ingredients defined", 0,
                              f.dish_map[it.dish_id].name))
       ELSE [f EXCEPT !.needs = AddNeeds(@, ing_rows, it.qty, 1)]

\* Mutant of IsShort: no ingredient is ever found short.
IsShortNever(info) == FALSE

\* The sufficiency check: the first short ingredient, in the order of needs.
IsShort(info) == info.stock < info.needed

CheckNeeds(f) ==
    IF \E k \in DOMAIN f.needs : IsShort(f.needs[k])
    THEN LET k == CHOOSE j \in DOMAIN f.needs :
                      /\ IsShort(f.needs[j])
                      /\ \A i \in 1..(j - 1) : ~IsShort(f.needs[i])
             info == f.needs[k]
         IN Return(f, Outcome(FALSE, "Not enough", 0, info.name, info.needed, info.stock))
    ELSE f

vat_amount(subtotal) == RoundHalfEven(subtotal * vatRate, 1000)

\* round(subtotal + vat_amount, 2): the subtotal here is the unrounded one.
total(subtotal) == RoundHalfEven(subtotal + 10 * vat_amount(subtotal), 10)

OrderRow(subtotal) ==
    [subtotal |-> RoundHalfEven(subtotal, 10), vat_rate |-> vatRate,
     vat_amount |-> vat_amount(subtotal), total |-> total(subtotal)]

\* Mutant of line_price: the price of one unit, whatever the quantity.
line_price_of_one(f, it) == RoundHalfEven(f.dish_map[it.dish_id].price, 10)

line_price(f, it) == RoundHalfEven(f.dish_map[it.dish_id].price * it.qty, 10)

\* Mutant of new_stock: the stock read, with nothing taken off.
new_stock_not_reduced(info) == info.stock

new_stock(info) == info.stock - info.needed

\* The statements of the "with conn:" block, in the order they are executed.
Statements(f, items) ==
    <<[stmt |-> "insert_order", row |-> OrderRow(f.subtotal)]>>
    \o [k \in DOMAIN items |->
          [stmt |-> "insert_item",
           row |-> [dish_id |-> items[k].dish_id, quantity |-> items[k].qty,
                    line_price |-> line_price(f, items[k])]]]
    \o [k \in DOMAIN f.needs |->
          [stmt |-> "update_stock",
           row |-> [id |-> f.needs[k].iid, quantity_in_stock |-> new_stock(f.needs[k])]]]

\* cur.lastrowid inside the transaction: the order row just inserted.
LastOrderId(tx) == tx.orders[Len(tx.orders)].id

\* order_date TIMESTAMP DEFAULT CURRENT_TIMESTAMP, to the day.
CURRENT_TIMESTAMP == today

\* One statement on the transaction's view of the database.  order_items.dish_id
\* is a foreign key (PRAGMA foreign_keys = ON).
Exec(tx, s) ==
    IF s.stmt = "insert_order"
    THEN [db |-> Insert(tx, "orders",
                        [id |-> NextId(tx, "orders"), order_date |-> CURRENT_TIMESTAMP,
                         subtotal |-> s.row.subtotal, vat_rate |-> s.row.vat_rate,
                         vat_amount |-> s.row.vat_amount, total |-> s.row.total]),
          err |-> ""]
    ELSE IF s.stmt = "insert_item"
    THEN IF DishById(tx, s.row.dish_id) = {}
         THEN [db |-> tx, err |-> "FOREIGN KEY constraint failed"]
         ELSE [db |-> [tx EXCEPT !.order_items =
                          Append(@, [order_id |-> LastOrderId(tx),
                                     dish_id |-> s.row.dish_id,
                                     quantity |-> s.row.quantity,
                                     line_price |-> s.row.line_price])],
               err |-> ""]
    ELSE [db |-> [tx EXCEPT !.stock_inventory =
                     [k \in DOMAIN @ |->
                        IF @[k].id = s.row.id
                        THEN [@[k] EXCEPT !.quantity_in_stock = s.row.quantity_in_stock]
                        ELSE @[k]]],
          err |-> ""]

StorageError == "forced storage error"

\* Statements k.. of the transaction; statement number fault raises instead of
\* taking effect (fault = 0: none is forced).
RECURSIVE RunStatements(_, _, _, _)
RunStatements(tx, stmts, k, fault) ==
    IF k > Len(stmts) THEN [db |-> tx, err |-> ""]
    ELSE IF k = fault THEN [db |-> tx, err |-> StorageError]
    ELSE LET e == Exec(tx, stmts[k])
         IN IF e.err # "" THEN e ELSE RunStatements(e.db, stmts, k + 1, fault)

\* Mutant of Rollback: the statements executed before the error stay written.
RollbackKeepsWrites(before, tx) == tx

\* What "with conn:" leaves when its block raised: the database as it was when
\* the transaction began.
Rollback(before, tx) == before

\* "with conn:": commit when the block ends, roll back when it raises; the
\* except clause of create_order returns the exception's text.
Transaction(db, stmts, fault) ==
    LET r == RunStatements(db, stmts, 1, fault)
    IN IF r.err # ""
       THEN [db |-> Rollback(db, r.db), out |-> Failure(r.err, 0, "")]
       ELSE [db |-> r.db, out |-> Success("order", LastOrderId(r.db))]

RECURSIVE ValidateItems(_, _, _, _)
ValidateItems(db, f, items, i) ==
    IF f.done \/ i > Len(items) THEN f
    ELSE ValidateItems(db, ValidateLine(db, f, items[i]), items, i + 1)

RECURSIVE NeedsItems(_, _, _, _)
NeedsItems(db, f, items, i) ==
    IF f.done \/ i > Len(items) THEN f
    ELSE NeedsItems(db, NeedsLine(db, f, items[i]), items, i + 1)

\* The locals after the two loops.
Accumulated(db, items) ==
    LET f1 == ValidateItems(db, Frame0, items, 1)
    IN IF f1.done THEN f1 ELSE NeedsItems(db, f1, items, 1)

\* The locals after the two loops and the sufficiency check.
Checked(db, items) ==
    LET f == Accumulated(db, items)
    IN IF f.done THEN f ELSE CheckNeeds(f)

\* Mutant of create_order: the sufficiency check runs after the transaction.
create_order_checks_after_commit(db, items, fault) ==
    LET f == Accumulated(db, items)
    IN IF f.done THEN [db |-> db, out |-> f.out]
       ELSE LET t == Transaction(db, Statements(f, items), fault)
                c == CheckNeeds(f)
            IN IF c.done THEN [db |-> t.db, out |-> c.out] ELSE t

\* create_order(items) run alone against db, with a storage error forced on
\* statement number fault of its transaction.
create_order(db, items, fault) ==
    LET f == Checked(db, items)
    IN IF f.done THEN [db |-> db, out |-> f.out]
       ELSE Transaction(db, Statements(f, items), fault)

\* ------------------------------------------------------------ the catalogs

Entry(name, qty_needed, unit) == [name |-> name, qty_needed |-> qty_needed, unit |-> unit]

RecipeA == <<Entry("flour", 2, "g")>>
RecipeB == <<Entry("flour", 3, "g"), Entry("egg", 1, "pc"), Entry("flour", 1, "g")>>

FlourStocks == {5, 6}
EggStocks == {0, 1}     \* 0: egg is never added, the recipe of B creates it
Prices == [A |-> 1365, B |-> 2500, E |-> 2500]    \* 1.365, 2.50, 2.50

\* A database the public operations build from the empty one: flour (and egg)
\* in stock, dish 1 "A" using flour, dish 2 "B" using flour twice and egg, and
\* dish 3 "E" with no recipe, either created so or emptied by update_dish.
Setup(flour, egg, emptied) ==
    LET d1 == add_ingredient(EmptyDB, "flour", flour, "g").db
        d2 == IF egg > 0 THEN add_ingredient(d1, "egg", egg, "pc").db ELSE d1
        d3 == create_dish(d2, "A", Prices.A, RecipeA).db
        d4 == create_dish(d3, "B", Prices.B, RecipeB).db
    IN IF emptied
       THEN update_dish(create_dish(d4, "E", Prices.E, RecipeA).db, 3, "E", Prices.E, <<>>).db
       ELSE create_dish(d4, "E", Prices.E, <<>>).db

Catalogs == {Setup(flour, egg, emptied) :
                flour \in FlourStocks, egg \in EggStocks, emptied \in BOOLEAN}

\* Dish ids a basket may name: the three dishes of the catalogs and an absent one.
DishIds == {1, 2, 3, 4}

Lines == [dish_id : DishIds, qty : 0..MaxQty]

Baskets == UNION {[1..n -> Lines] : n \in 0..MaxLines}

\* ------------------------------------------------------------------- Spec

Init ==
    /\ \E db \in Catalogs :
          /\ stock_inventory = db.stock_inventory
          /\ menu_inventory = db.menu_inventory
          /\ dish_ingredients = db.dish_ingredients
          /\ orders = db.orders
          /\ order_items = db.order_items
          /\ sqlite_sequence = db.sqlite_sequence
    /\ today = 1
    /\ call = NoCall
    /\ result = NoResult
    /\ proc = <<>>
    /\ lock = 0
    /\ stock0 = <<>>

Store(db) ==
    /\ stock_inventory' = db.stock_inventory
    /\ menu_inventory' = db.menu_inventory
    /\ dish_ingredients' = db.dish_ingredients
    /\ orders' = db.orders
    /\ order_items' = db.order_items
    /\ sqlite_sequence' = db.sqlite_sequence

\* The route new_order calls create_order(items): one whole call.  fault names
\* the statement of its transaction made to raise (0: none).
CreateOrder(items, fault) ==
    /\ call = NoCall
    /\ Len(orders) < MaxOrders
    /\ LET r == create_order(DB, items, fault)
       IN /\ Store(r.db)
          /\ call' = [op |-> "create_order", items |-> items, fault |-> fault]
          /\ result' = r.out
    /\ UNCHANGED <<today, proc, lock, stock0>>

\* The route flashes the outcome and redirects: the request is over.
Respond ==
    /\ call # NoCall
    /\ call' = NoCall
    /\ result' = NoResult
    /\ UNCHANGED <<tables, today, proc, lock, stock0>>

\* The statements a call's transaction holds (0 when the call returns before it).
NumStatements(db, items) ==
    LET f == Checked(db, items)
    IN IF f.done THEN 0 ELSE Len(Statements(f, items))

PlaceOrder ==
    /\ call = NoCall
    /\ Len(orders) < MaxOrders
    /\ \E items \in Baskets :
          \E fault \in 0..NumStatements(DB, items) : CreateOrder(items, fault)

Next == PlaceOrder \/ Respond

Spec == Init /\ [][Next]_vars

\* --------------------------------------------------------------- ConcSpec
\* Two requests inside create_order at once, each on its own connection.  A
\* SELECT outside a transaction reads the committed tables.  The first INSERT
\* of "with conn:" begins the transaction and takes sqlite's write lock; the
\* statements then change only that connection's view (tx) until the commit
\* publishes it.  A step is one SQL statement with the local code before it.

MaxConcLines == 1    \* basket lines per create_order call (ConcSpec)

Procs == {1, 2}

ConcBaskets == UNION {[1..n -> Lines] : n \in 0..MaxConcLines}

ConcCatalogs == {Setup(flour, 1, FALSE) : flour \in FlourStocks}

NotCalled == [pc |-> "start", items |-> <<>>, i |-> 0, f |-> Frame0,
              stmts |-> <<>>, tx |-> EmptyDB]

ConcInit ==
    /\ \E db \in ConcCatalogs :
          /\ stock_inventory = db.stock_inventory
          /\ menu_inventory = db.menu_inventory
          /\ dish_ingredients = db.dish_ingredients
          /\ orders = db.orders
          /\ order_items = db.order_items
          /\ sqlite_sequence = db.sqlite_sequence
          /\ stock0 = db.stock_inventory
    /\ today = 1
    /\ call = NoCall
    /\ result = NoResult
    /\ proc = [p \in Procs |-> NotCalled]
    /\ lock = 0

\* The call returns (finally: conn.close()).
Returned(l, out) == [l EXCEPT !.pc = "done", !.f = Return(@, out), !.tx = EmptyDB]

\* create_order(items) is entered: conn = get_connection().
Enter(p, items) ==
    /\ proc[p].pc = "start"
    /\ proc' = [proc EXCEPT ![p] = [@ EXCEPT !.pc = "validate", !.items = items, !.i = 1]]
    /\ UNCHANGED <<tables, today, call, result, lock, stock0>>

\* One pass of the first loop (its SELECT reads the committed menu).
Validate(p) ==
    LET l == proc[p]
    IN /\ l.pc = "validate"
       /\ l.i <= Len(l.items)
       /\ LET f == ValidateLine(DB, l.f, l.items[l.i])
          IN proc' = [proc EXCEPT ![p] =
                         IF f.done THEN Returned(l, f.out)
                         ELSE [l EXCEPT !.f = f, !.i = @ + 1]]
       /\ UNCHANGED <<tables, today, call, result, lock, stock0>>

\* The first loop is over: vat_amount and total are computed, the second begins.
Validated(p) ==
    LET l == proc[p]
    IN /\ l.pc = "validate"
       /\ l.i > Len(l.items)
       /\ proc' = [proc EXCEPT ![p] = [l EXCEPT !.pc = "needs", !.i = 1]]
       /\ UNCHANGED <<tables, today, call, result, lock, stock0>>

\* One pass of the second loop (its SELECT reads the committed recipe and stock).
Needs(p) ==
    LET l == proc[p]
    IN /\ l.pc = "needs"
       /\ l.i <= Len(l.items)
       /\ LET f == NeedsLine(DB, l.f, l.items[l.i])
          IN proc' = [proc EXCEPT ![p] =
                         IF f.done THEN Returned(l, f.out)
                         ELSE [l EXCEPT !.f = f, !.i = @ + 1]]
       /\ UNCHANGED <<tables, today, call, result, lock, stock0>>

\* The sufficiency check, on the stock the second loop read.
Check(p) ==
    LET l == proc[p]
    IN /\ l.pc = "needs"
       /\ l.i > Len(l.items)
       /\ LET f == CheckNeeds(l.f)
          IN proc' = [proc EXCEPT ![p] =
                         IF f.done THEN Returned(l, f.out)
                         ELSE [l EXCEPT !.pc = "write", !.i = 1,
                                        !.stmts = Statements(l.f, l.items)]]
       /\ UNCHANGED <<tables, today, call, result, lock, stock0>>

\* Statement i of the transaction.  The first one begins the transaction on the
\* committed tables and needs the write lock to be free.
Write(p) ==
    LET l == proc[p]
    IN /\ l.pc = "write"
       /\ l.i <= Len(l.stmts)
       /\ IF l.i = 1 THEN lock = 0 ELSE lock = p
       /\ LET e == Exec(IF l.i = 1 THEN DB ELSE l.tx, l.stmts[l.i])
          IN IF e.err # ""
             THEN /\ proc' = [proc EXCEPT ![p] = Returned(l, Failure(e.err, 0, ""))]
                  /\ lock' = 0
             ELSE /\ proc' = [proc EXCEPT ![p] = [l EXCEPT !.tx = e.db, !.i = @ + 1]]
                  /\ lock' = p
       /\ UNCHANGED <<tables, today, call, result, stock0>>

\* The other connection keeps the write lock past the busy timeout: the first
\* INSERT raises OperationalError, which the except clause returns.
Busy(p) ==
    LET l == proc[p]
    IN /\ l.pc = "write"
       /\ l.i = 1
       /\ lock \notin {0, p}
       /\ proc' = [proc EXCEPT ![p] = Returned(l, Failure("database is locked", 0, ""))]
       /\ UNCHANGED <<tables, today, call, result, lock, stock0>>

\* The with block ends: the transaction's view becomes the committed tables.
Commit(p) ==
    LET l == proc[p]
    IN /\ l.pc = "write"
       /\ l.i > Len(l.stmts)
       /\ lock = p
       /\ Store(l.tx)
       /\ lock' = 0
       /\ proc' = [proc EXCEPT ![p] = Returned(l, Success("order", LastOrderId(l.tx)))]
       /\ UNCHANGED <<today, call, result, stock0>>

ConcNext ==
    \E p \in Procs :
       \/ \E items \in ConcBaskets : Enter(p, items)
       \/ Validate(p)
       \/ Validated(p)
       \/ Needs(p)
       \/ Check(p)
       \/ Write(p)
       \/ Busy(p)
       \/ Commit(p)

ConcSpec == ConcInit /\ [][ConcNext]_vars

\* ---------------------------------------------------------------- AppSpec
\* One client, one call at a time, from the empty database init_db leaves:
\* the catalog is built, edited and ordered from, all within one day.  Every
\* call is one step.

MaxIds == 2          \* ingredients, and dishes, AUTOINCREMENT ever numbers
MaxAppOrders == 1    \* orders committed before AppSpec stops placing more

\* Recipes the forms submit.
Recipe100 == <<Entry("flour", 100, "g")>>
RecipeTwice == <<Entry("flour", 100, "g"), Entry("flour", 101, "g")>>
RecipeEgg == <<Entry("egg", 1, "pc"), Entry("flour", 100, "g")>>
RecipeMismatch == <<Entry("egg", 1, "pc"), Entry("flour", 1, "ml")>>
RecipeBadUnit == <<Entry("egg", 1, "pc"), Entry("flour", 1, "kg")>>
RecipeBadQty == <<Entry("egg", 1, "pc"), Entry("flour", 0, "g")>>
RecipePadded == <<Entry("egg", 1, " g ")>>

IngredientArgs ==
    {<<"flour", 300, " g ">>, <<"flour", 299, "g">>, <<"flour", 0, "g">>,
     <<"egg", 6, "kg">>, <<"egg", 6, "pc">>}

DishArgs ==
    {<<"A", 1365, Recipe100>>, <<"B", 2500, RecipeTwice>>, <<"B", 2500, RecipeEgg>>,
     <<"A", 1500, <<>> >>, <<"B", 0, Recipe100>>, <<"A", 1365, RecipeMismatch>>,
     <<"A", 1365, RecipeBadUnit>>, <<"A", 1365, RecipeBadQty>>,
     <<"B", 2500, RecipePadded>>}

\* Ids a call may name: every id the tables can hold, and one they never hold.
Ids == 1..(MaxIds + 1)

Line(dish_id, qty) == [dish_id |-> dish_id, qty |-> qty]

AppBaskets ==
    {<<>>, <<Line(1, 1)>>, <<Line(2, 1)>>, <<Line(1, 1), Line(2, 1)>>,
     <<Line(1, 1), Line(1, 1)>>, <<Line(1, 0)>>}

AppInit ==
    /\ stock_inventory = EmptyDB.stock_inventory
    /\ menu_inventory = EmptyDB.menu_inventory
    /\ dish_ingredients = EmptyDB.dish_ingredients
    /\ orders = EmptyDB.orders
    /\ order_items = EmptyDB.order_items
    /\ sqlite_sequence = EmptyDB.sqlite_sequence
    /\ today = 1
    /\ call = NoCall
    /\ result = NoResult
    /\ proc = <<>>
    /\ lock = 0
    /\ stock0 = <<>>

\* The ids given out stay within the bound of the model.
WithinBounds(db) ==
    /\ db.sqlite_sequence.stock_inventory <= MaxIds
    /\ db.sqlite_sequence.menu_inventory <= MaxIds

\* A call of a writing operation: r is what it leaves and returns.
Calls(c, r) ==
    /\ call = NoCall
    /\ WithinBounds(r.db)
    /\ Store(r.db)
    /\ call' = c
    /\ result' = r.out
    /\ UNCHANGED <<today, proc, lock, stock0>>

\* A call of a reading operation: only SELECTs, rows is what it returns.
Reads(c, rows) ==
    /\ call = NoCall
    /\ call' = c
    /\ result' = rows
    /\ UNCHANGED <<tables, today, proc, lock, stock0>>

AddIngredient(name, quantity, unit) ==
    Calls([op |-> "add_ingredient", name |-> name, quantity |-> quantity, unit |-> unit],
          add_ingredient(DB, name, quantity, unit))

UpdateIngredient(ingredient_id, name, quantity, unit) ==
    Calls([op |-> "update_ingredient_by_id", ingredient_id |-> ingredient_id,
           name |-> name, quantity |-> quantity, unit |-> unit],
          update_ingredient_by_id(DB, ingredient_id, name, quantity, unit))

DeleteIngredient(ingredient_id) ==
    Calls([op |-> "delete_ingredient_by_id", ingredient_id |-> ingredient_id],
          delete_ingredient_by_id(DB, ingredient_id))

CreateDish(dish_name, dish_price, ingredients) ==
    Calls([op |-> "create_dish", dish_name |-> dish_name, dish_price |-> dish_price,
           ingredients |-> ingredients],
          create_dish(DB, dish_name, dish_price, ingredients))

UpdateDish(dish_id, new_name, new_price, new_ingredients) ==
    Calls([op |-> "update_dish", dish_id |-> dish_id, new_name |-> new_name,
           new_price |-> new_price, new_ingredients |-> new_ingredients],
          update_dish(DB, dish_id, new_name, new_price, new_ingredients))

DeleteDish(dish_id) ==
    Calls([op |-> "delete_dish", dish_id |-> dish_id], delete_dish(DB, dish_id))

AppCreateOrder(items) ==
    /\ Len(orders) < MaxAppOrders
    /\ Calls([op |-> "create_order", items |-> items, fault |-> 0],
             create_order(DB, items, 0))

\* The route index recomputes the alerts on every view.
ComputeLowStockAlerts ==
    Reads([op |-> "compute_low_stock_alerts"], compute_low_stock_alerts(DB))

AppNext ==
    \/ \E a \in IngredientArgs : AddIngredient(a[1], a[2], a[3])
    \/ \E id \in Ids, a \in IngredientArgs : UpdateIngredient(id, a[1], a[2], a[3])
    \/ \E id \in Ids : DeleteIngredient(id)
    \/ \E a \in DishArgs : CreateDish(a[1], a[2], a[3])
    \/ \E id \in Ids, a \in DishArgs : UpdateDish(id, a[1], a[2], a[3])
    \/ \E id \in Ids : DeleteDish(id)
    \/ \E items \in AppBaskets : AppCreateOrder(items)
    \/ ComputeLowStockAlerts
    \/ Respond

AppSpec == AppInit /\ [][AppNext]_vars

\* ------------------------------------------------------------- LedgerSpec
\* One client, one call at a time, on a stocked catalog: orders are placed on
\* successive days between edits of the catalog, and the reads and the CSV
\* export are called.  Every call is one step.

MaxDay == 2          \* the last day the clock reaches

\* flour and egg in stock and dish 1 "A", as the public operations leave them.
LedgerCatalog ==
    LET d1 == add_ingredient(EmptyDB, "flour", 300, "g").db
        d2 == add_ingredient(d1, "egg", 6, "pc").db
    IN create_dish(d2, "A", Prices.A, Recipe100).db

LedgerIngredientArgs ==
    {<<1, "flour", 299, "g">>, <<2, "flour", 6, "pc">>, <<3, "egg", 6, "pc">>}

LedgerDishArgs ==
    {<<1, "A", 1500, Recipe100>>, <<2, "A", 2500, RecipeEgg>>, <<3, "B", 2500, <<>> >>}

LedgerBaskets ==
    {<<>>, <<Line(1, 1)>>, <<Line(1, 1), Line(2, 1)>>, <<Line(1, 1), Line(1, 1)>>}

IngredientFilters ==
    {<<"", None, "ge">>, <<"g", None, "ge">>, <<"", Some(200), "ge">>,
     <<"o", Some(299), "le">>}

MenuFilters ==
    {<<"", None, "le">>, <<"a", None, "le">>, <<"", Some(1500), "le">>,
     <<"b", Some(1500), "ge">>}

OrderFilters ==
    {<<"", 0, 0>>, <<"b", 0, 0>>, <<"", 2, 0>>, <<"a", 0, 1>>}

LedgerInit ==
    /\ stock_inventory = LedgerCatalog.stock_inventory
    /\ menu_inventory = LedgerCatalog.menu_inventory
    /\ dish_ingredients = LedgerCatalog.dish_ingredients
    /\ orders = LedgerCatalog.orders
    /\ order_items = LedgerCatalog.order_items
    /\ sqlite_sequence = LedgerCatalog.sqlite_sequence
    /\ today = 1
    /\ call = NoCall
    /\ result = NoResult
    /\ proc = <<>>
    /\ lock = 0
    /\ stock0 = <<>>

FetchIngredients(filter_name, filter_quantity, op) ==
    Reads([op |-> "fetch_ingredients", filter_name |-> filter_name,
           filter_quantity |-> filter_quantity, cmp |-> op],
          fetch_ingredients(DB, filter_name, filter_quantity, op))

FetchMenu(filter_name, filter_price, price_op) ==
    Reads([op |-> "fetch_menu", filter_name |-> filter_name,
           filter_price |-> filter_price, cmp |-> price_op],
          fetch_menu(DB, filter_name, filter_price, price_op))

FetchOrders(filter_name, start_date, end_date) ==
    \E p \in DateDesc(SelectedOrders(DB, start_date, end_date)) :
       Reads([op |-> "fetch_orders", filter_name |-> filter_name,
              start_date |-> start_date, end_date |-> end_date],
             fetch_orders(DB, filter_name, start_date, end_date, p))

ExportOrdersCsv ==
    \E p \in DateDesc(orders) :
       Reads([op |-> "export_orders_csv"], export_orders_csv(DB, p))

\* The clock passes midnight.
Midnight ==
    /\ call = NoCall
    /\ today < MaxDay
    /\ today' = today + 1
    /\ UNCHANGED <<tables, call, result, proc, lock, stock0>>

LedgerNext ==
    \/ \E a \in IngredientArgs : AddIngredient(a[1], a[2], a[3])
    \/ \E a \in LedgerIngredientArgs : UpdateIngredient(a[1], a[2], a[3], a[4])
    \/ \E id \in Ids : DeleteIngredient(id)
    \/ CreateDish("B", Prices.B, RecipeEgg)
    \/ \E a \in LedgerDishArgs : UpdateDish(a[1], a[2], a[3], a[4])
    \/ \E id \in Ids : DeleteDish(id)
    \/ \E items \in LedgerBaskets : CreateOrder(items, 0)
    \/ \E f \in IngredientFilters : FetchIngredients(f[1], f[2], f[3])
    \/ \E f \in MenuFilters : FetchMenu(f[1], f[2], f[3])
    \/ \E f \in OrderFilters : FetchOrders(f[1], f[2], f[3])
    \/ ExportOrdersCsv
    \/ Midnight
    \/ Respond

LedgerSpec == LedgerInit /\ [][LedgerNext]_vars

\* --------------------------------------------------------------- EditSpec
\* Requests inside create_order, one step per SQL statement as in ConcSpec,
\* while a third client edits the catalog: add_ingredient,
\* update_ingredient_by_id, create_dish and update_dish, each one whole call
\* per step (its statements run inside one "with conn:" transaction).  A call
\* that reaches its first writing statement while an order's transaction holds
\* the write lock past the busy timeout gets OperationalError; a call that
\* waits for the lock instead is the same call made after the commit.

RecipeThree == <<Entry("flour", 3, "g")>>
RecipeOneEgg == <<Entry("egg", 1, "pc")>>

EditCatalogs ==
    {create_dish(add_ingredient(EmptyDB, "flour", flour, "g").db, "A", Prices.A, RecipeA).db :
        flour \in FlourStocks}

EditBaskets == {<<Line(1, 1)>>, <<Line(1, MaxQty)>>, <<Line(2, 1)>>}

EditIngredientArgs ==
    {<<1, "flour", 1, "g">>, <<1, "flour", 9, "g">>, <<1, "flour", 0, "g">>}

EditInit ==
    /\ \E db \in EditCatalogs :
          /\ stock_inventory = db.stock_inventory
          /\ menu_inventory = db.menu_inventory
          /\ dish_ingredients = db.dish_ingredients
          /\ orders = db.orders
          /\ order_items = db.order_items
          /\ sqlite_sequence = db.sqlite_sequence
          /\ stock0 = db.stock_inventory
    /\ today = 1
    /\ call = NoCall
    /\ result = NoResult
    /\ proc = [p \in Procs |-> NotCalled]
    /\ lock = 0

\* A call of a writing operation next to the orders in flight: r is what it
\* leaves and returns when the write lock is free, writes tells whether it
\* reaches a writing statement, busy is how "database is locked" leaves it.
Edits(c, r, writes, busy) ==
    /\ call = NoCall
    /\ call' = c
    /\ IF writes /\ lock # 0
       THEN /\ result' = busy
            /\ UNCHANGED tables
       ELSE /\ Store(r.db)
            /\ result' = r.out
    /\ UNCHANGED <<today, proc, lock, stock0>>

\* add_ingredient catches IntegrityError only.
EditAddIngredient(name, quantity, unit) ==
    Edits([op |-> "add_ingredient", name |-> name, quantity |-> quantity, unit |-> unit],
          add_ingredient(DB, name, quantity, unit),
          quantity > 0 /\ validate_unit(unit) # "",
          RaisedClosed("database is locked"))

\* update_ingredient_by_id catches nothing.
EditUpdateIngredient(ingredient_id, name, quantity, unit) ==
    Edits([op |-> "update_ingredient_by_id", ingredient_id |-> ingredient_id,
           name |-> name, quantity |-> quantity, unit |-> unit],
          update_ingredient_by_id(DB, ingredient_id, name, quantity, unit),
          quantity > 0 /\ validate_unit(unit) # "",
          Raised("database is locked"))

\* create_dish returns str(e) for any exception.
EditCreateDish(dish_name, dish_price, ingredients) ==
    Edits([op |-> "create_dish", dish_name |-> dish_name, dish_price |-> dish_price,
           ingredients |-> ingredients],
          create_dish(DB, dish_name, dish_price, ingredients),
          dish_price > 0,
          Failure("database is locked", 0, dish_name))

\* update_dish catches nothing; its SELECT comes before its first write.
EditUpdateDish(dish_id, new_name, new_price, new_ingredients) ==
    Edits([op |-> "update_dish", dish_id |-> dish_id, new_name |-> new_name,
           new_price |-> new_price, new_ingredients |-> new_ingredients],
          update_dish(DB, dish_id, new_name, new_price, new_ingredients),
          new_price > 0 /\ DishById(DB, dish_id) # {},
          Raised("database is locked"))

EditNext ==
    \/ \E p \in Procs :
          \/ \E items \in EditBaskets : Enter(p, items)
          \/ Validate(p)
          \/ Validated(p)
          \/ Needs(p)
          \/ Check(p)
          \/ Write(p)
          \/ Busy(p)
          \/ Commit(p)
    \/ EditAddIngredient("egg", 1, "pc")
    \/ \E a \in EditIngredientArgs : EditUpdateIngredient(a[1], a[2], a[3], a[4])
    \/ EditCreateDish("B", Prices.B, RecipeOneEgg)
    \/ EditUpdateDish(1, "A", Prices.A, RecipeThree)
    \/ Respond

EditSpec == EditInit /\ [][EditNext]_vars

\* ----------------------------------------------------------------- claims
\* What the claims speak of, stated on the tables themselves (the state before
\* the step unprimed, the state after it primed).

Ordered == call'.op = "create_order"

DishExists(dish_id) == \E d \in Range(menu_inventory) : d.id = dish_id

PriceOf(dish_id) == (CHOOSE d \in Range(menu_inventory) : d.id = dish_id).dish_price

NameOf(dish_id) == (CHOOSE d \in Range(menu_inventory) : d.id = dish_id).dish_name

RecipeOf(dish_id) == SelectSeq(dish_ingredients, LAMBDA l : l.menu_id = dish_id)

\* What one unit of the dish takes of the ingredient, over all its recipe entries.
PerUnit(dish_id, iid) ==
    LET uses == SelectSeq(RecipeOf(dish_id), LAMBDA l : l.ingredient_id = iid)
    IN SumSeq([j \in DOMAIN uses |-> uses[j].quantity_needed])

\* The aggregated need of an ingredient over all basket lines.
Demand(items, iid) ==
    SumSeq([k \in DOMAIN items |-> PerUnit(items[k].dish_id, iid) * items[k].qty])

\* Every line has a positive quantity and names an existing dish.
Resolvable(items) ==
    \A k \in DOMAIN items : items[k].qty > 0 /\ DishExists(items[k].dish_id)

ValidBasket(items) ==
    /\ Resolvable(items)
    /\ \A k \in DOMAIN items : RecipeOf(items[k].dish_id) # <<>>

ShortOf(items) ==
    {r \in Range(stock_inventory) : Demand(items, r.id) > r.quantity_in_stock}

SubtotalOf(items) ==
    SumSeq([k \in DOMAIN items |-> PriceOf(items[k].dish_id) * items[k].qty])

ValidationMsgs == {"Quantity must be >= 1", "Dish id not found",
                   "has no ingredients defined", "Not enough"}

\* C1: two create_order calls that both return success leave every stock at its
\* value before the calls minus the sum of both calls' aggregated needs, and
\* not below zero.
C1_ConcurrentOrdersIsolated ==
    (\A p \in Procs : proc[p].pc = "done" /\ proc[p].f.out.ok)
    => \A k \in DOMAIN stock_inventory :
          /\ stock_inventory[k].quantity_in_stock >= 0
          /\ stock_inventory[k].quantity_in_stock =
                stock0[k].quantity_in_stock
                - (Demand(proc[1].items, stock_inventory[k].id)
                   + Demand(proc[2].items, stock_inventory[k].id))

\* C2: a failure forced on any statement of the order transaction (after the
\* sufficiency check passed) makes create_order return a failure outcome and
\* leaves orders, order_items and every stock (and the catalog) as before the call.
C2_CommitAllOrNothing ==
    [][(Ordered /\ call'.fault \in 1..NumStatements(DB, call'.items))
       => (~result'.ok /\ ~result'.raised /\ tables' = tables)]_vars

\* C2's case: the second stock update raised after the order row, both item
\* rows and the first stock update had been written.
C2_Witness ==
    /\ call.op = "create_order"
    /\ Len(call.items) = 2
    /\ call.fault = NumStatements(DB, call.items)
    /\ call.fault = Len(call.items) + 3
    /\ ~result.ok /\ result.msg = StorageError

\* C3: a create_order that fails for a validation reason (quantity <= 0, dish
\* not found, empty recipe, insufficient stock) changes no table.
C3_ValidationFailureMutatesNothing ==
    [][(Ordered /\ ~result'.ok /\ result'.msg \in ValidationMsgs)
       => tables' = tables]_vars

\* C3's case: a call refused for insufficient stock, after both loops ran.
C3_Witness ==
    /\ call.op = "create_order"
    /\ ~result.ok /\ result.msg = "Not enough"
    /\ Len(call.items) = 2

\* C4: for a basket of valid lines, create_order fails with "Not enough" exactly
\* when some ingredient's aggregated need exceeds its stock, and the failure
\* reports that ingredient's aggregated need and its stock.
C4_InsufficientIffAggregatedNeedExceedsStock ==
    [][(Ordered /\ ValidBasket(call'.items))
       => /\ (result'.msg = "Not enough") <=> (ShortOf(call'.items) # {})
          /\ result'.msg = "Not enough" =>
                /\ ~result'.ok
                /\ \E r \in ShortOf(call'.items) :
                      /\ result'.name = r.ingredient_name
                      /\ result'.needed = Demand(call'.items, r.id)
                      /\ result'.have = r.quantity_in_stock]_vars

\* C4's case: A needs 2 of flour, B needs 4, the stock is 5, and {A x1, B x1}
\* fails with needed 6.
C4_Witness ==
    /\ call.op = "create_order"
    /\ call.items = <<[dish_id |-> 1, qty |-> 1], [dish_id |-> 2, qty |-> 1]>>
    /\ ~result.ok /\ result.msg = "Not enough"
    /\ result.name = "flour" /\ result.needed = 6 /\ result.have = 5

\* C5: create_order with an empty basket returns a failure outcome and inserts
\* no order row and no order item.
C5_EmptyBasketRejected ==
    [][(Ordered /\ call'.items = <<>>)
       => (~result'.ok /\ orders' = orders /\ order_items' = order_items)]_vars

\* C6: a successful create_order lowers every ingredient's stock by exactly its
\* aggregated need (0 for an ingredient no line uses) and changes no name, no
\* unit, no dish and no recipe row.
C6_StockReducedByAggregatedNeed ==
    [][(Ordered /\ result'.ok)
       => /\ DOMAIN stock_inventory' = DOMAIN stock_inventory
          /\ \A k \in DOMAIN stock_inventory :
                stock_inventory'[k] =
                   [stock_inventory[k] EXCEPT !.quantity_in_stock =
                       @ - Demand(call'.items, stock_inventory[k].id)]
          /\ menu_inventory' = menu_inventory
          /\ dish_ingredients' = dish_ingredients]_vars

\* C6's case: {B x1, A x1} committed against flour 6 and egg 1.
C6_Witness ==
    /\ call.op = "create_order" /\ result.ok
    /\ call.items = <<[dish_id |-> 2, qty |-> 1], [dish_id |-> 1, qty |-> 1]>>
    /\ \A r \in Range(stock_inventory) : r.quantity_in_stock = 0

\* C7: a successful create_order appends exactly one order row and one order
\* item per basket line, in basket order, each with its line's dish, quantity
\* and round(price x quantity, 2); the stored subtotal is the sum of price x
\* quantity over all lines, rounded to cents at commit.
C7_OneItemPerLine ==
    [][(Ordered /\ result'.ok)
       => /\ Len(orders') = Len(orders) + 1
          /\ SubSeq(orders', 1, Len(orders)) = orders
          /\ result'.id = orders'[Len(orders')].id
          /\ \A k \in DOMAIN orders : orders[k].id # result'.id
          /\ orders'[Len(orders')].subtotal =
                RoundHalfEven(SubtotalOf(call'.items), 10)
          /\ order_items' = order_items \o
                [k \in DOMAIN call'.items |->
                   [order_id |-> result'.id,
                    dish_id |-> call'.items[k].dish_id,
                    quantity |-> call'.items[k].qty,
                    line_price |-> RoundHalfEven(PriceOf(call'.items[k].dish_id)
                                                 * call'.items[k].qty, 10)]]]_vars

\* C7's case: two lines naming the same dish became two order items.
C7_Witness ==
    /\ call.op = "create_order" /\ result.ok
    /\ call.items = <<[dish_id |-> 1, qty |-> 1], [dish_id |-> 1, qty |-> 2]>>
    /\ Len(order_items) >= 2
    /\ order_items[Len(order_items)].quantity = 2
    /\ order_items[Len(order_items) - 1].dish_id = order_items[Len(order_items)].dish_id

\* C8: every committed order stores subtotal = round(sum, 2), vat_amount =
\* round(sum x 0.21, 2), vat_rate = 0.21 and total = round(stored subtotal +
\* stored vat_amount, 2).
C8_TotalIsSubtotalPlusVat ==
    [][(Ordered /\ result'.ok)
       => LET o == orders'[Len(orders')]
              sum == SubtotalOf(call'.items)
          IN /\ o.subtotal = RoundHalfEven(sum, 10)
             /\ o.vat_amount = RoundHalfEven(sum * 21, 1000)
             /\ o.vat_rate = 21
             /\ o.total = RoundHalfEven(10 * (o.subtotal + o.vat_amount), 10)]_vars

\* C9: a basket with a line of quantity <= 0 is refused with "Quantity must be
\* >= 1" and nothing is persisted, whatever its other lines are.
C9_InvalidQuantityReportedFirst ==
    [][(Ordered /\ \E k \in DOMAIN call'.items : call'.items[k].qty <= 0)
       => (~result'.ok /\ result'.msg = "Quantity must be >= 1"
           /\ tables' = tables)]_vars

EmptyRecipeLines(items) ==
    {k \in DOMAIN items : DishExists(items[k].dish_id)
                          /\ RecipeOf(items[k].dish_id) = <<>>}

\* C10 as claimed: any line naming an existing dish with no recipe entry makes
\* create_order fail with "has no ingredients defined", naming that dish.
C10_EmptyRecipeAlwaysReported ==
    [][(Ordered /\ EmptyRecipeLines(call'.items) # {})
       => /\ ~result'.ok /\ result'.msg = "has no ingredients defined"
          /\ \E k \in EmptyRecipeLines(call'.items) :
                result'.name = NameOf(call'.items[k].dish_id)
          /\ tables' = tables]_vars

\* C10 as amended: when every line has a positive quantity and names an
\* existing dish, a line whose dish has no recipe entry makes create_order fail
\* with "has no ingredients defined", naming the dish of the first such line,
\* and nothing is committed, whatever the stock is; and every order item a call
\* inserts is for a dish that has a recipe entry.
C10_EmptyRecipeRefused ==
    [][Ordered
       => /\ (Resolvable(call'.items) /\ EmptyRecipeLines(call'.items) # {})
                => /\ ~result'.ok /\ result'.msg = "has no ingredients defined"
                   /\ \E k \in EmptyRecipeLines(call'.items) :
                         /\ \A j \in EmptyRecipeLines(call'.items) : k <= j
                         /\ result'.name = NameOf(call'.items[k].dish_id)
                   /\ tables' = tables
          /\ \A k \in DOMAIN order_items' :
                k > Len(order_items) => RecipeOf(order_items'[k].dish_id) # <<>>]_vars

\* C10's case: B x2 needs more flour than any stock holds, and the empty recipe
\* of E, on the line after it, is what the call reports.
C10_Witness ==
    /\ call.op = "create_order"
    /\ call.items = <<[dish_id |-> 2, qty |-> 2], [dish_id |-> 3, qty |-> 1]>>
    /\ ~result.ok /\ result.msg = "has no ingredients defined" /\ result.name = "E"

\* The recipe lines that reference the ingredient.
LinesUsing(iid) == {k \in DOMAIN dish_ingredients : dish_ingredients[k].ingredient_id = iid}

\* The recipe lines whose threshold, 3 x quantity_needed, is above the stock.
LowLinesOf(r) ==
    {k \in LinesUsing(r.id) : r.quantity_in_stock < 3 * dish_ingredients[k].quantity_needed}

\* The places of the alert list that name the ingredient.
AlertsFor(alerts, r) == {k \in DOMAIN alerts : alerts[k].ingredient = r.ingredient_name}

\* C11: compute_low_stock_alerts lists an ingredient exactly once when some
\* recipe line referencing it has 3 x quantity_needed above its stock, and not at
\* all otherwise (stock equal to 3 x quantity_needed on every line, or no line);
\* it lists nothing else, and it changes no table.
C11_AlertedOnceIffBelowSomeThreshold ==
    [][call'.op = "compute_low_stock_alerts"
       => /\ \A r \in Range(stock_inventory) :
                Cardinality(AlertsFor(result', r)) = IF LowLinesOf(r) # {} THEN 1 ELSE 0
          /\ \A k \in DOMAIN result' :
                \E r \in Range(stock_inventory) : k \in AlertsFor(result', r)
          /\ tables' = tables]_vars

\* C11's case: an ingredient two recipe lines are low on is listed once, while
\* another, whose stock equals 3 x quantity_needed on its only line, is not.
C11_Witness ==
    /\ call.op = "compute_low_stock_alerts"
    /\ \E r \in Range(stock_inventory) :
          Cardinality(LowLinesOf(r)) >= 2 /\ Cardinality(AlertsFor(result, r)) = 1
    /\ \E r \in Range(stock_inventory) :
          /\ LinesUsing(r.id) # {}
          /\ \A k \in LinesUsing(r.id) :
                r.quantity_in_stock = 3 * dish_ingredients[k].quantity_needed
          /\ AlertsFor(result, r) = {}

\* The ingredients one recipe line references, with that line's quantity_needed.
SingleLine == {r \in Range(stock_inventory) : Cardinality(LinesUsing(r.id)) = 1}

NeededOf(r) == dish_ingredients[CHOOSE k \in LinesUsing(r.id) : TRUE].quantity_needed

\* C12 as claimed: an ingredient of a single recipe line needing n is not
\* alerted at stock 2 x n, and is alerted at stock 2.99 x n.
C12_TwiceNeededNotAlerted ==
    [][call'.op = "compute_low_stock_alerts"
       => \A r \in SingleLine :
             /\ r.quantity_in_stock = 2 * NeededOf(r) => AlertsFor(result', r) = {}
             /\ 100 * r.quantity_in_stock = 299 * NeededOf(r)
                   => AlertsFor(result', r) # {}]_vars

\* C12 as amended: an ingredient of a single recipe line needing n is alerted
\* at stock 2 x n and at stock 2.99 x n, both below 3 x n, and is not alerted at
\* stock 3 x n.
C12_AlertedBelowThreeTimesNeeded ==
    [][call'.op = "compute_low_stock_alerts"
       => \A r \in SingleLine :
             /\ r.quantity_in_stock = 2 * NeededOf(r) => AlertsFor(result', r) # {}
             /\ 100 * r.quantity_in_stock = 299 * NeededOf(r)
                   => AlertsFor(result', r) # {}
             /\ r.quantity_in_stock = 3 * NeededOf(r) => AlertsFor(result', r) = {}]_vars

\* C12's case: one line needs 100 of an ingredient whose stock is 200, and the
\* scan lists it.
C12_Witness ==
    /\ call.op = "compute_low_stock_alerts"
    /\ \E r \in SingleLine :
          /\ NeededOf(r) = 100 /\ r.quantity_in_stock = 200
          /\ AlertsFor(result, r) # {}

\* The recipe entry names an ingredient the table holds under another unit.
Conflicts(e) ==
    \E r \in Range(stock_inventory) : r.ingredient_name = e.name /\ r.unit # e.unit

HasConflict(ingredients) == \E k \in DOMAIN ingredients : Conflicts(ingredients[k])

\* The entry has an allowed unit, a positive quantity and no unit conflict,
\* neither with the table nor with an entry before it.
EntryAccepted(ingredients, k) ==
    /\ strip(ingredients[k].unit) \in allowed_units
    /\ ingredients[k].qty_needed > 0
    /\ ~Conflicts(ingredients[k])
    /\ \A j \in 1..(k - 1) :
          ingredients[j].name = ingredients[k].name
             => ingredients[j].unit = ingredients[k].unit

\* The first entry that is not accepted is one with a unit conflict (and an
\* allowed unit and a positive quantity).
FirstRefusedConflicts(ingredients) ==
    \E k \in DOMAIN ingredients :
       /\ Conflicts(ingredients[k])
       /\ strip(ingredients[k].unit) \in allowed_units
       /\ ingredients[k].qty_needed > 0
       /\ \A j \in 1..(k - 1) : EntryAccepted(ingredients, j)

NameInUse(dish_name) == \E d \in Range(menu_inventory) : d.dish_name = dish_name

\* C13 as claimed: create_dish with a recipe entry naming an existing
\* ingredient under another unit fails with the unit-mismatch outcome and
\* leaves every table unchanged.
C13_ConflictAlwaysUnitMismatch ==
    [][(call'.op = "create_dish" /\ HasConflict(call'.ingredients))
       => /\ ~result'.ok /\ result'.msg = "Unit mismatch"
          /\ tables' = tables]_vars

\* C13 as amended: create_dish with a recipe entry naming an existing
\* ingredient under another unit returns a failure and leaves every table
\* unchanged (no dish row, no recipe link, no ingredient created for an earlier
\* entry); the failure is the unit-mismatch outcome when the price is positive,
\* the dish name is not in use and the conflicting entry is the first one
\* refused.
C13_ConflictFailsAndChangesNothing ==
    [][(call'.op = "create_dish" /\ HasConflict(call'.ingredients))
       => /\ ~result'.ok /\ ~result'.raised
          /\ tables' = tables
          /\ (/\ call'.dish_price > 0
              /\ ~NameInUse(call'.dish_name)
              /\ FirstRefusedConflicts(call'.ingredients))
                => result'.msg = "Unit mismatch"]_vars

\* C13's case: flour is held in g, the recipe names egg (not held, so created
\* inside the call) and then flour in ml; the call failed on the mismatch and
\* no egg, no dish and no link are there.
C13_Witness ==
    /\ call.op = "create_dish"
    /\ call.ingredients = RecipeMismatch
    /\ ~result.ok /\ result.msg = "Unit mismatch"
    /\ \E r \in Range(stock_inventory) : r.ingredient_name = "flour" /\ r.unit = "g"
    /\ \A r \in Range(stock_inventory) : r.ingredient_name # "egg"
    /\ ~NameInUse(call.dish_name)

\* The entry has an invalid unit, a quantity <= 0 or a unit conflict.
EntryInvalid(e) ==
    \/ strip(e.unit) \notin allowed_units
    \/ e.qty_needed <= 0
    \/ Conflicts(e)

\* C14: update_dish on an absent dish id, or with a recipe entry that has an
\* invalid unit, a quantity <= 0 or a unit conflict, returns a failure outcome
\* and leaves the dish, its recipe and the ingredient table as they were.
C14_UpdateDishFailureReturned ==
    [][(/\ call'.op = "update_dish"
        /\ \/ ~DishExists(call'.dish_id)
           \/ \E k \in DOMAIN call'.new_ingredients :
                 EntryInvalid(call'.new_ingredients[k]))
       => /\ ~result'.ok /\ ~result'.raised
          /\ tables' = tables]_vars

\* The recipe links of a dish in the state after the step.
RecipeAfter(dish_id) == SelectSeq(dish_ingredients', LAMBDA l : l.menu_id = dish_id)

\* C15: after a successful update_dish the dish has the new name and price and
\* its recipe is the supplied one, entry by entry (one link per entry, with its
\* quantity_needed, to the ingredient of that name) and nothing else; the other
\* dishes, their recipes and every ingredient row held before are unchanged.
C15_RecipeReplacedNotMerged ==
    [][(call'.op = "update_dish" /\ result'.ok)
       => LET id == call'.dish_id
              recipe == call'.new_ingredients
          IN /\ Len(RecipeAfter(id)) = Len(recipe)
             /\ \A k \in DOMAIN recipe :
                   /\ RecipeAfter(id)[k].quantity_needed = recipe[k].qty_needed
                   /\ \E r \in Range(stock_inventory') :
                         /\ r.id = RecipeAfter(id)[k].ingredient_id
                         /\ r.ingredient_name = recipe[k].name
             /\ SelectSeq(dish_ingredients', LAMBDA l : l.menu_id # id)
                   = SelectSeq(dish_ingredients, LAMBDA l : l.menu_id # id)
             /\ DOMAIN menu_inventory' = DOMAIN menu_inventory
             /\ \A k \in DOMAIN menu_inventory :
                   menu_inventory'[k] =
                      IF menu_inventory[k].id = id
                      THEN [id |-> id, dish_name |-> call'.new_name,
                            dish_price |-> call'.new_price]
                      ELSE menu_inventory[k]
             /\ SubSeq(stock_inventory', 1, Len(stock_inventory)) = stock_inventory
             /\ orders' = orders /\ order_items' = order_items]_vars

\* C15's case: the dish updated had a link to egg and now has the two flour
\* links supplied and no other, the second dish keeping its own recipe.
C15_Witness ==
    /\ call.op = "update_dish" /\ result.ok
    /\ call.new_ingredients = RecipeTwice
    /\ Len(RecipeOf(call.dish_id)) = 2
    /\ Len(menu_inventory) = 2 /\ sqlite_sequence.menu_inventory = 2
    /\ \E d \in Range(menu_inventory) : d.id # call.dish_id /\ Len(RecipeOf(d.id)) = 1
    /\ \E r \in Range(stock_inventory) :
          /\ r.ingredient_name = "egg" /\ r.quantity_in_stock = 0
          /\ LinesUsing(r.id) = {}

PublicOperations ==
    {"add_ingredient", "update_ingredient_by_id", "delete_ingredient_by_id",
     "create_dish", "update_dish", "delete_dish", "create_order"}

\* C16: every call of a public operation returns a (success flag, message)
\* outcome; none ends by an exception leaving the call.
C16_EveryOperationReturnsAnOutcome ==
    [][call'.op \in PublicOperations => ~result'.raised]_vars

\* C17: no step removes or changes a committed order row or order item (id,
\* amounts, dish, quantity, line_price), and only create_order adds any.
C17_OrdersImmutable ==
    [][/\ Len(orders') >= Len(orders)
       /\ SubSeq(orders', 1, Len(orders)) = orders
       /\ Len(order_items') >= Len(order_items)
       /\ SubSeq(order_items', 1, Len(order_items)) = order_items
       /\ (orders' # orders \/ order_items' # order_items)
             => call'.op = "create_order"]_vars

\* C17's case: dish 1 was ordered at 1.365, its price was then changed to 1.50
\* and it was ordered again; the first item still carries 1.36, the last 1.50.
C17_Witness ==
    /\ Len(orders) = 2
    /\ order_items # <<>>
    /\ order_items[1].order_id = 1 /\ order_items[1].dish_id = 1
    /\ order_items[1].quantity = 1 /\ order_items[1].line_price = 136
    /\ orders[1].subtotal = 136
    /\ DishExists(1) /\ PriceOf(1) = 1500
    /\ order_items[Len(order_items)].order_id = 2
    /\ order_items[Len(order_items)].dish_id = 1
    /\ order_items[Len(order_items)].line_price = 150

\* The name texts and numeric bounds the filters are tried with, the bounds in
\* rising order.
NameTexts == {"", "a", "g"}
QuantityBounds == <<0, 200, 299, 300>>
PriceBounds == <<Prices.A, 1500, Prices.B>>

\* The (start_date, end_date) pairs tried, 0 for none.
DateRanges == {<<0, 0>>, <<MaxDay, 0>>, <<0, 1>>, <<1, MaxDay>>}

\* The orders row a fetched order was read from.
OrderRowOf(o) ==
    [id |-> o.order.id, order_date |-> o.order.order_date, subtotal |-> o.order.subtotal,
     vat_rate |-> o.order.vat_rate, vat_amount |-> o.order.vat_amount,
     total |-> o.order.total]

FetchedOrderRows(fetched) == {OrderRowOf(fetched[k]) : k \in DOMAIN fetched}

UnfilteredFetchesReturnAll ==
    /\ \A op \in {"ge", "le"} :
          /\ fetch_ingredients(DB, "", None, op) = stock_inventory
          /\ fetch_menu(DB, "", None, op) = menu_inventory
    /\ \A p \in DateDesc(orders) :
          LET fetched == fetch_orders(DB, "", 0, 0, p)
          IN /\ Len(fetched) = Len(orders)
             /\ FetchedOrderRows(fetched) = Range(orders)
             /\ \A k \in DOMAIN fetched :
                   Len(fetched[k].items) =
                      Cardinality({i \in DOMAIN order_items :
                                      order_items[i].order_id = fetched[k].order.id})

\* Each bound against the next higher one; the subset relation carries the
\* property to every pair b1 <= b2.
NumericFiltersMonotonic ==
    \A n \in NameTexts :
       /\ \A i \in 1..(Len(QuantityBounds) - 1) :
             LET b1 == Some(QuantityBounds[i])
                 b2 == Some(QuantityBounds[i + 1])
             IN /\ Range(fetch_ingredients(DB, n, b2, "ge"))
                      \subseteq Range(fetch_ingredients(DB, n, b1, "ge"))
                /\ Range(fetch_ingredients(DB, n, b1, "le"))
                      \subseteq Range(fetch_ingredients(DB, n, b2, "le"))
       /\ \A i \in 1..(Len(PriceBounds) - 1) :
             LET b1 == Some(PriceBounds[i])
                 b2 == Some(PriceBounds[i + 1])
             IN /\ Range(fetch_menu(DB, n, b2, "ge"))
                      \subseteq Range(fetch_menu(DB, n, b1, "ge"))
                /\ Range(fetch_menu(DB, n, b1, "le"))
                      \subseteq Range(fetch_menu(DB, n, b2, "le"))

\* The unfiltered results are the tables themselves (UnfilteredFetchesReturnAll).
FilteredWithinUnfiltered ==
    /\ \A n \in NameTexts, op \in {"ge", "le"} :
          /\ \A b \in {None} \cup {Some(q) : q \in Range(QuantityBounds)} :
                Range(fetch_ingredients(DB, n, b, op)) \subseteq Range(stock_inventory)
          /\ \A b \in {None} \cup {Some(q) : q \in Range(PriceBounds)} :
                Range(fetch_menu(DB, n, b, op)) \subseteq Range(menu_inventory)
    /\ \A n \in NameTexts, d \in DateRanges :
          \A p \in DateDesc(SelectedOrders(DB, d[1], d[2])) :
             LET fetched == fetch_orders(DB, n, d[1], d[2], p)
             IN /\ FetchedOrderRows(fetched) \subseteq Range(orders)
                /\ \A k \in DOMAIN fetched :
                      fetched[k].items = ItemsOfOrder(DB, fetched[k].order.id)

FetchOperations == {"fetch_ingredients", "fetch_menu", "fetch_orders"}

\* C18: in every reachable state the unfiltered fetches return the whole
\* ingredient, dish and order tables; a stricter 'ge' or 'le' bound returns a
\* subset of what the looser bound returns; every filtered result is a subset of
\* the unfiltered one; and a fetch step leaves every table as it was.
C18_FetchesFullMonotonicReadOnly ==
    /\ [](UnfilteredFetchesReturnAll /\ NumericFiltersMonotonic /\ FilteredWithinUnfiltered)
    /\ [][call'.op \in FetchOperations => tables' = tables]_vars

\* C18's case: a fetch with a numeric bound has just returned some rows of its
\* table but not all of them.
C18_Witness ==
    /\ call.op = "fetch_menu"
    /\ call.filter_price = Some(1500) /\ call.cmp = "le"
    /\ result # <<>>
    /\ Len(result) < Len(menu_inventory)
    /\ Range(result) = {r \in Range(menu_inventory) : r.dish_price <= 1500}

\* The exported row a stored order item stands for: the item's quantity and
\* line_price, its dish's name, and the values of its order.
ExportedRowOf(it) ==
    LET o == CHOOSE r \in Range(orders) : r.id = it.order_id
        m == CHOOSE r \in Range(menu_inventory) : r.id = it.dish_id
    IN [order_id |-> o.id, order_date |-> order_date_display(o.order_date),
        dish_name |-> m.dish_name, qty |-> it.quantity, line_price |-> it.line_price,
        subtotal |-> o.subtotal, vat_rate |-> o.vat_rate, vat_amount |-> o.vat_amount,
        total |-> o.total]

Occurrences(s, x) == Cardinality({k \in DOMAIN s : s[k] = x})

\* C19: the rows export_orders_csv writes are, counted with multiplicity, the
\* rows of the stored order items, none missing and none twice, and every row
\* carries the subtotal, vat_rate, vat_amount and total of its order.
C19_ExportEveryItemOnce ==
    [][call'.op = "export_orders_csv" =>
          LET rows == result'.rows
              stored == [i \in DOMAIN order_items |-> ExportedRowOf(order_items[i])]
          IN /\ tables' = tables
             /\ Len(rows) = Len(order_items)
             /\ \A i \in DOMAIN stored :
                   Occurrences(rows, stored[i]) = Occurrences(stored, stored[i])
             /\ \A k \in DOMAIN rows :
                   \E o \in Range(orders) :
                      /\ o.id = rows[k].order_id
                      /\ rows[k].subtotal = o.subtotal
                      /\ rows[k].vat_rate = o.vat_rate
                      /\ rows[k].vat_amount = o.vat_amount
                      /\ rows[k].total = o.total]_vars

\* C19's case: an export of two orders, one of them with two item rows.
C19_Witness ==
    /\ call.op = "export_orders_csv"
    /\ Len(orders) = 2
    /\ Len(result.rows) >= 3
    /\ \E j, k \in DOMAIN result.rows :
          j # k /\ result.rows[j].order_id = result.rows[k].order_id
    /\ \E j, k \in DOMAIN result.rows : result.rows[j].order_id # result.rows[k].order_id

RecipeOperations == {"create_dish", "update_dish"}

HeldBefore(name) == {r \in Range(stock_inventory) : r.ingredient_name = name}

HeldAfter(name) == {r \in Range(stock_inventory') : r.ingredient_name = name}

\* C20: after a successful create_dish or update_dish every recipe entry naming
\* an ingredient not held before has made exactly one ingredient row of that
\* name, with stock 0 and the entry's unit, which the entry's link points to;
\* every entry naming an ingredient held before gave its stored unit, links to
\* that row and leaves the row as it was; no other ingredient row appears.  A
\* call that does not succeed leaves the ingredient table as it was, so the new
\* rows come with the links or not at all.
C20_RecipeCreatesMissingIngredientsAtZero ==
    [][call'.op \in RecipeOperations =>
          IF result'.ok
          THEN LET id == IF call'.op = "create_dish" THEN result'.id ELSE call'.dish_id
                   recipe == IF call'.op = "create_dish" THEN call'.ingredients
                             ELSE call'.new_ingredients
                   links == RecipeAfter(id)
               IN /\ Len(links) = Len(recipe)
                  /\ \A k \in DOMAIN recipe :
                        IF HeldBefore(recipe[k].name) = {}
                        THEN /\ Cardinality(HeldAfter(recipe[k].name)) = 1
                             /\ \A r \in HeldAfter(recipe[k].name) :
                                   /\ r.quantity_in_stock = 0
                                   /\ r.unit = recipe[k].unit
                                   /\ links[k].ingredient_id = r.id
                        ELSE /\ HeldAfter(recipe[k].name) = HeldBefore(recipe[k].name)
                             /\ \A r \in HeldBefore(recipe[k].name) :
                                   /\ r.unit = recipe[k].unit
                                   /\ links[k].ingredient_id = r.id
                  /\ SubSeq(stock_inventory', 1, Len(stock_inventory)) = stock_inventory
                  /\ \A r \in Range(stock_inventory') \ Range(stock_inventory) :
                        \E k \in DOMAIN recipe : recipe[k].name = r.ingredient_name
          ELSE stock_inventory' = stock_inventory]_vars

\* C20's case: create_dish with the recipe (egg 1 pc, flour 100 g) has just
\* succeeded where flour was held with 300 g and egg was not held; egg now
\* exists with stock 0 in pc, flour is as it was, and the dish links to both.
C20_Witness ==
    /\ call.op = "create_dish" /\ result.ok
    /\ call.ingredients = RecipeEgg
    /\ \E f, e \in Range(stock_inventory) :
          /\ f.ingredient_name = "flour" /\ f.quantity_in_stock = 300 /\ f.unit = "g"
          /\ e.ingredient_name = "egg" /\ e.quantity_in_stock = 0 /\ e.unit = "pc"
          /\ e.id = sqlite_sequence.stock_inventory /\ f.id < e.id
          /\ RecipeOf(result.id)[1].ingredient_id = e.id
          /\ RecipeOf(result.id)[2].ingredient_id = f.id

\* The tables a connection sees: the committed ones, and the view of the
\* transaction that holds the write lock.
Views ==
    {DB} \cup {proc[p].tx : p \in {q \in DOMAIN proc : lock = q /\ proc[q].pc = "write"}}

\* C21: whatever add_ingredient, update_ingredient_by_id, create_dish,
\* update_dish and create_order calls have run, one after another or
\* interleaved, no ingredient's quantity_in_stock is below zero.
C21_StockNeverNegative ==
    \A db \in Views : \A r \in Range(db.stock_inventory) : r.quantity_in_stock >= 0

\* C21's case: two interleaved orders have both committed, together needing
\* more of an ingredient than there was when they started, and its stock is 0.
C21_Witness ==
    /\ \A p \in Procs : proc[p].pc = "done" /\ proc[p].f.out.ok
    /\ Len(orders) = 2
    /\ \E k \in DOMAIN stock_inventory :
          /\ stock_inventory[k].quantity_in_stock = 0
          /\ Demand(proc[1].items, stock_inventory[k].id) > 0
          /\ Demand(proc[1].items, stock_inventory[k].id)
                + Demand(proc[2].items, stock_inventory[k].id)
             > stock0[k].quantity_in_stock

IdsIn(rows) == {rows[k].id : k \in DOMAIN rows}

ReferencesResolve ==
    /\ \A l \in Range(dish_ingredients) :
          /\ l.menu_id \in IdsIn(menu_inventory)
          /\ l.ingredient_id \in IdsIn(stock_inventory)
    /\ \A it \in Range(order_items) :
          /\ it.order_id \in IdsIn(orders)
          /\ it.dish_id \in IdsIn(menu_inventory)

\* C22: in every reachable state each recipe link names an existing dish and an
\* existing ingredient and each order item an existing order and an existing
\* dish; a successful delete_dish removes the dish row and exactly the links of
\* that dish, and no ingredient, no other dish, no other link, no order and no
\* order item; a delete_dish or delete_ingredient_by_id that does not succeed
\* removes nothing.
C22_ReferentialIntegrity ==
    /\ []ReferencesResolve
    /\ [][/\ call'.op = "delete_dish" =>
             IF result'.ok
             THEN /\ \A it \in Range(order_items) : it.dish_id # call'.dish_id
                  /\ menu_inventory' =
                        SelectSeq(menu_inventory, LAMBDA d : d.id # call'.dish_id)
                  /\ Len(menu_inventory') = Len(menu_inventory) - 1
                  /\ dish_ingredients' =
                        SelectSeq(dish_ingredients, LAMBDA l : l.menu_id # call'.dish_id)
                  /\ stock_inventory' = stock_inventory
                  /\ orders' = orders /\ order_items' = order_items
             ELSE tables' = tables
          /\ call'.op = "delete_ingredient_by_id" =>
                IF result'.ok
                THEN /\ LinesUsing(call'.ingredient_id) = {}
                     /\ stock_inventory' =
                           SelectSeq(stock_inventory, LAMBDA r : r.id # call'.ingredient_id)
                     /\ UNCHANGED <<menu_inventory, dish_ingredients, orders, order_items>>
                ELSE tables' = tables]_vars

\* C22's case: one of two dishes, never ordered, has just been deleted; the
\* other dish, its recipe and both ingredients are still there, and egg, which
\* only a recipe can have created at stock 0, is named by no link any more.
C22_Witness ==
    /\ call.op = "delete_dish" /\ result.ok
    /\ sqlite_sequence.menu_inventory = 2 /\ Len(menu_inventory) = 1
    /\ \A d \in Range(menu_inventory) : d.id # call.dish_id /\ RecipeOf(d.id) # <<>>
    /\ RecipeOf(call.dish_id) = <<>>
    /\ Len(stock_inventory) = 2
    /\ \E r \in Range(stock_inventory) :
          r.ingredient_name = "egg" /\ r.quantity_in_stock = 0 /\ LinesUsing(r.id) = {}

\* C23: every call of a public operation ends with the connection it opened
\* closed, its transaction over before the close: none leaves the connection
\* open and none closes it while "with conn:" has still to commit or roll back.
C23_ConnectionReleasedOnEveryPath ==
    [][call'.op \in PublicOperations => result'.conn = "closed"]_vars

\* The step on which p's create_order commits and returns success.
Commits(p) == proc[p].pc = "write" /\ proc'[p].pc = "done" /\ proc'[p].f.out.ok

\* C24: when a create_order call commits, no other order having committed
\* before it, every ingredient its basket needs has afterwards the stock it
\* had just before the commit minus the call's aggregated need, whatever
\* update_ingredient_by_id did since the call read the stock; the commit does
\* not raise any stock.
C24_CommitSubtractsFromCurrentStock ==
    [][\A p \in Procs :
          (Commits(p) /\ orders = <<>>) =>
             \A k \in DOMAIN proc[p].f.needs :
                \A i \in DOMAIN stock_inventory :
                   stock_inventory[i].id = proc[p].f.needs[k].iid =>
                      /\ stock_inventory'[i].quantity_in_stock =
                            stock_inventory[i].quantity_in_stock
                            - proc[p].f.needs[k].needed
                      /\ stock_inventory'[i].quantity_in_stock
                            <= stock_inventory[i].quantity_in_stock]_vars

====
